---- MODULE Spec2Model ----
(***************************************************************************)
(* Model of src/src/08-functions-n-closures-tasks.js: the closures         *)
(* returned by retry, memoize, getIdGeneratorFunction, getPolynom and      *)
(* logger, each with the state its closure captures.                       *)
(***************************************************************************)
EXTENDS Integers, Sequences, FiniteSets, TLC

\* ---------------------------------------------------------------- bounds
MaxAttempts == 3
MaxInvocations == 5
MaxMemoCalls == 3
MaxSeed == 4
MaxIdCalls == 3
MaxCoeffs == 3
MaxX == 2
MaxPolyCalls == 2
MaxParams == 2
MaxLoggerCalls == 2

\* ---------------------------------------------------------------- state
VARIABLES
  \* retry
  retState, retAttempts, retPlan, retProducerCount, retRemaining, retCalls,
  retDepth, retResult,
  \* memoize
  memState, cash, memProducerLog, memArgs, memReturns,
  \* getIdGeneratorFunction
  idGen, idReturns,
  \* getPolynom
  polyState, polyParams, arr, polyCalls,
  \* logger
  logState, logName, logParams, logStr, logTrace, logResult, logCalls

varsRetry == <<retState, retAttempts, retPlan, retProducerCount, retRemaining,
               retCalls, retDepth, retResult>>
varsMemo == <<memState, cash, memProducerLog, memArgs, memReturns>>
varsId == <<idGen, idReturns>>
varsPoly == <<polyState, polyParams, arr, polyCalls>>
varsLogger == <<logState, logName, logParams, logStr, logTrace, logResult,
                logCalls>>
vars == <<varsRetry, varsMemo, varsId, varsPoly, varsLogger>>

\* The functions share no state: a step of one leaves the others' alone.
notRetry == <<varsMemo, varsId, varsPoly, varsLogger>>
notMemo == <<varsRetry, varsId, varsPoly, varsLogger>>
notId == <<varsRetry, varsMemo, varsPoly, varsLogger>>
notPoly == <<varsRetry, varsMemo, varsId, varsLogger>>
notLogger == <<varsRetry, varsMemo, varsId, varsPoly>>

\* ================================================================= retry
\* What one invocation of the wrapped func does: throw, or return a value.
Outcomes == {"throw", "a", "b"}

\* func, as the caller wrote it: its n-th invocation has outcome plan[n].
Producers == [1..MaxInvocations -> Outcomes]

RetryIdle ==
  /\ retState = "none" /\ retAttempts = 0 /\ retProducerCount = 0
  /\ retRemaining = 0 /\ retCalls = 0 /\ retDepth = 0 /\ retResult = "none"

RetryInit ==
  /\ RetryIdle
  /\ retPlan \in Producers

\* retry(func, attempts): returns the wrapper, invokes nothing.
RetryCreate(attempts) ==
  /\ retState = "none"
  /\ retState' = "idle"
  /\ retAttempts' = attempts
  /\ UNCHANGED <<retPlan, retProducerCount, retRemaining, retCalls, retDepth,
                 retResult>>
  /\ UNCHANGED notRetry

\* The caller calls the wrapper: the outermost frame enters its try block.
RetryCall ==
  /\ retState \in {"idle", "done", "failed"}
  /\ retState' = "attempting"
  /\ retRemaining' = retAttempts
  /\ retCalls' = 0
  /\ retDepth' = 0
  /\ retResult' = "none"
  /\ UNCHANGED <<retAttempts, retPlan, retProducerCount>>
  /\ UNCHANGED notRetry

\* try { return func(); }: func returns, and every enclosing frame's
\* `return retry(func, attempts - 1)()` hands the value up to the caller.
RetryFuncReturns ==
  /\ retState = "attempting"
  /\ retProducerCount < MaxInvocations
  /\ retPlan[retProducerCount + 1] # "throw"
  /\ retProducerCount' = retProducerCount + 1
  /\ retCalls' = retCalls + 1
  /\ retResult' = retPlan[retProducerCount + 1]
  /\ retState' = "done"
  /\ UNCHANGED <<retAttempts, retPlan, retRemaining, retDepth>>
  /\ UNCHANGED notRetry

\* A plausible slip: the catch block gives up one attempt too early.
RetryFuncThrowsOffByOne ==
  /\ retState = "attempting"
  /\ retProducerCount < MaxInvocations
  /\ retPlan[retProducerCount + 1] = "throw"
  /\ retProducerCount' = retProducerCount + 1
  /\ retCalls' = retCalls + 1
  /\ IF retRemaining > 1
       THEN /\ retRemaining' = retRemaining - 1
            /\ retDepth' = retDepth + 1
            /\ retState' = "attempting"
       ELSE /\ retState' = "failed"
            /\ UNCHANGED <<retRemaining, retDepth>>
  /\ UNCHANGED <<retAttempts, retPlan, retResult>>
  /\ UNCHANGED notRetry

\* catch (e) { return retry(func, attempts - 1)(); }: func throws, the catch
\* block builds a wrapper with attempts - 1 and calls it in a new frame,
\* whatever attempts is.
RetryFuncThrows ==
  /\ retState = "attempting"
  /\ retProducerCount < MaxInvocations
  /\ retPlan[retProducerCount + 1] = "throw"
  /\ retProducerCount' = retProducerCount + 1
  /\ retCalls' = retCalls + 1
  /\ retRemaining' = retRemaining - 1
  /\ retDepth' = retDepth + 1
  /\ UNCHANGED <<retState, retAttempts, retPlan, retResult>>
  /\ UNCHANGED notRetry

\* =============================================================== memoize
\* What one invocation of the memoized func does: each invocation may
\* return a different value (Math.random in the example) or throw.
MemOutcomes == {"throw", "r0", "r1", "r2"}

\* Argument lists a caller may pass to the memoized wrapper.
MemoArgs == {<<>>, <<"x">>, <<"x", "y">>}

MemoInit ==
  /\ memState = "none"
  /\ cash = <<>>
  /\ memProducerLog = <<>>
  /\ memArgs = <<>>
  /\ memReturns = <<>>

\* memoize(func): const cash = new Map(); cash.set(func, func()); then the
\* wrapper is returned. If func throws, memoize throws and returns nothing.
Memoize ==
  /\ memState = "none"
  /\ \E out \in MemOutcomes :
       /\ memProducerLog' = Append(memProducerLog, out)
       /\ IF out = "throw"
            THEN /\ memState' = "threw"
                 /\ cash' = <<>>
            ELSE /\ memState' = "wrapped"
                 /\ cash' = [f \in {"func"} |-> out]
  /\ UNCHANGED <<memArgs, memReturns>>
  /\ UNCHANGED notMemo

\* A plausible slip: the wrapper calls func again instead of reading cash.
MemoCallNoCache(args) ==
  /\ memState = "wrapped"
  /\ Len(memReturns) < MaxMemoCalls
  /\ \E out \in MemOutcomes \ {"throw"} :
       /\ memProducerLog' = Append(memProducerLog, out)
       /\ memReturns' = Append(memReturns, out)
  /\ memArgs' = Append(memArgs, args)
  /\ UNCHANGED <<memState, cash>>
  /\ UNCHANGED notMemo

\* () => cash.get(func): the wrapper ignores its arguments and reads the Map.
MemoCall(args) ==
  /\ memState = "wrapped"
  /\ Len(memReturns) < MaxMemoCalls
  /\ memReturns' = Append(memReturns, cash["func"])
  /\ memArgs' = Append(memArgs, args)
  /\ UNCHANGED <<memState, cash, memProducerLog>>
  /\ UNCHANGED notMemo

\* ================================================ getIdGeneratorFunction
Gens == {1, 2}

\* The closure's `result` object, before getIdGeneratorFunction has run.
NoGen == [created |-> FALSE, startFrom |-> 0, value |-> 0, done |-> FALSE]

IdInit ==
  /\ idGen = [g \in Gens |-> NoGen]
  /\ idReturns = [g \in Gens |-> <<>>]

\* getIdGeneratorFunction(startFrom): result = { value: startFrom, done: false }.
GetIdGeneratorFunction(g, startFrom) ==
  /\ ~idGen[g].created
  /\ idGen' = [idGen EXCEPT ![g] = [created |-> TRUE, startFrom |-> startFrom,
                                    value |-> startFrom, done |-> FALSE]]
  /\ UNCHANGED idReturns
  /\ UNCHANGED notId

\* The generator's step on a result object r: the new object and the value
\* returned.
IdStep(r) ==
  IF r.done
    THEN [result |-> [r EXCEPT !.value = r.value + 1], returned |-> r.value + 1]
    ELSE [result |-> [r EXCEPT !.done = TRUE], returned |-> r.value]

\* A plausible slip: `result` lives outside the closure, so the generators
\* share one object.
IdCallShared(g) ==
  /\ idGen[g].created
  /\ Len(idReturns[g]) < MaxIdCalls
  /\ LET step == IdStep(idGen[g])
     IN /\ idGen' = [h \in Gens |->
                       IF idGen[h].created
                         THEN [idGen[h] EXCEPT !.value = step.result.value,
                                               !.done = step.result.done]
                         ELSE idGen[h]]
        /\ idReturns' = [idReturns EXCEPT ![g] = Append(@, step.returned)]
  /\ UNCHANGED notId

\* One call of generator g: it reads and writes its own result object only.
IdCall(g) ==
  /\ idGen[g].created
  /\ Len(idReturns[g]) < MaxIdCalls
  /\ LET step == IdStep(idGen[g])
     IN /\ idGen' = [idGen EXCEPT ![g] = step.result]
        /\ idReturns' = [idReturns EXCEPT ![g] = Append(@, step.returned)]
  /\ UNCHANGED notId

\* ============================================================ getPolynom
\* Coefficients the callers pass (those of the documented examples).
Coeffs == {-3, 1, 2, 3, 5, 8}

ParamLists == UNION {[1..n -> Coeffs] : n \in 0..MaxCoeffs}

Xs == (0 - MaxX)..MaxX

\* Array.prototype.reverse.
Reverse(s) == [i \in 1..Len(s) |-> s[Len(s) + 1 - i]]

\* x ** n for an integer n >= 0 (x ** 0 is 1, also for x = 0).
RECURSIVE Pow(_, _)
Pow(x, n) == IF n = 0 THEN 1 ELSE x * Pow(x, n - 1)

\* for (let i = arr.length - 1; i >= 0; i -= 1) result += arr[i] * x ** i;
\* a is the 0-based JS array held as a 1-based sequence.
RECURSIVE PolyLoop(_, _, _, _)
PolyLoop(a, x, i, result) ==
  IF i >= 0 THEN PolyLoop(a, x, i - 1, result + a[i + 1] * Pow(x, i))
            ELSE result

PolyInit ==
  /\ polyState = "none"
  /\ polyParams = <<>>
  /\ arr = <<>>
  /\ polyCalls = <<>>

\* A plausible slip: the coefficients are kept in the order given.
PolynomArrNotReversed(params) == params

\* const arr = params.reverse();
PolynomArr(params) == Reverse(params)

\* getPolynom(...params): whatever params is, a function is returned.
GetPolynom(params) ==
  /\ polyState = "none"
  /\ polyState' = "function"
  /\ polyParams' = params
  /\ arr' = PolynomArr(params)
  /\ UNCHANGED polyCalls
  /\ UNCHANGED notPoly

\* One call of the returned function: let result = 0; the loop; return result.
PolyCall(x) ==
  /\ polyState = "function"
  /\ Len(polyCalls) < MaxPolyCalls
  /\ polyCalls' = Append(polyCalls,
                         [x |-> x, y |-> PolyLoop(arr, x, Len(arr) - 1, 0)])
  /\ UNCHANGED <<polyState, polyParams, arr>>
  /\ UNCHANGED notPoly

\* ================================================================ logger
\* JS values passed as arguments: numbers, strings (as their characters)
\* and undefined.
Num(n) == [t |-> "number", n |-> n, s |-> <<>>]
Str(s) == [t |-> "string", n |-> 0, s |-> s]
Undefined == [t |-> "undefined", n |-> 0, s |-> <<>>]

ParamVals == {Num(0), Num(-12), Str(<<"a", "\"">>), Undefined}

LoggerParams == UNION {[1..n -> ParamVals] : n \in 0..MaxParams}

FuncNames == {<<"c", "o", "s">>, <<>>}

FuncResults == {"v1", "v2"}

Digit(d) == <<"0", "1", "2", "3", "4", "5", "6", "7", "8", "9">>[d + 1]

\* The decimal digits of n >= 0.
RECURSIVE Digits(_)
Digits(n) == IF n < 10 THEN <<Digit(n)>>
                       ELSE Digits(n \div 10) \o <<Digit(n % 10)>>

\* JSON text of a string's characters: " and \ are escaped.
RECURSIVE Escaped(_)
Escaped(s) ==
  IF s = <<>> THEN <<>>
  ELSE (IF Head(s) \in {"\"", "\\"} THEN <<"\\", Head(s)>> ELSE <<Head(s)>>)
       \o Escaped(Tail(s))

\* JSON.stringify of one array element: undefined is written as null.
StringifyValue(v) ==
  CASE v.t = "number" -> IF v.n < 0 THEN <<"-">> \o Digits(0 - v.n)
                                    ELSE Digits(v.n)
    [] v.t = "string" -> <<"\"">> \o Escaped(v.s) \o <<"\"">>
    [] OTHER -> <<"n", "u", "l", "l">>

RECURSIVE Joined(_)
Joined(params) ==
  IF params = <<>> THEN <<>>
  ELSE IF Len(params) = 1 THEN StringifyValue(params[1])
  ELSE StringifyValue(Head(params)) \o <<",">> \o Joined(Tail(params))

\* JSON.stringify(params), params an array.
Stringify(params) == <<"[">> \o Joined(params) \o <<"]">>

\* String.prototype.slice(1, -1).
Slice1(s) == SubSeq(s, 2, Len(s) - 1)

\* `${func.name}(${str}) starts` and `... ends`, as characters.
Message(name, str, suffix) == name \o <<"(">> \o str \o <<")", " ">> \o suffix

Starts == <<"s", "t", "a", "r", "t", "s">>
Ends == <<"e", "n", "d", "s">>

LogEvent(msg) == [ev |-> "logFunc", data |-> msg]
CallEvent == [ev |-> "func called", data |-> <<>>]
ReturnEvent(v) == [ev |-> "func returned", data |-> <<v>>]
ThrowEvent == [ev |-> "func threw", data |-> <<>>]

LoggerInit ==
  /\ logState = "none"
  /\ logName = <<>>
  /\ logParams = <<>>
  /\ logStr = <<>>
  /\ logTrace = <<>>
  /\ logResult = "none"
  /\ logCalls = 0

\* logger(func, logFunc): returns the wrapper; name stands for func.name.
Logger(name) ==
  /\ logState = "none"
  /\ logState' = "idle"
  /\ logName' = name
  /\ UNCHANGED <<logParams, logStr, logTrace, logResult, logCalls>>
  /\ UNCHANGED notLogger

\* A plausible slip: func is entered before the starts message is logged.
LoggerCallLogsLate(params) ==
  /\ logState \in {"idle", "returned", "threw"}
  /\ logCalls < MaxLoggerCalls
  /\ logCalls' = logCalls + 1
  /\ logParams' = params
  /\ logStr' = Slice1(Stringify(params))
  /\ logTrace' = <<CallEvent,
                   LogEvent(Message(logName, Slice1(Stringify(params)), Starts))>>
  /\ logResult' = "none"
  /\ logState' = "in func"
  /\ UNCHANGED logName
  /\ UNCHANGED notLogger

\* The wrapper up to its call of func: str is computed, the starts message is
\* logged, func(...params) is entered.
LoggerCall(params) ==
  /\ logState \in {"idle", "returned", "threw"}
  /\ logCalls < MaxLoggerCalls
  /\ logCalls' = logCalls + 1
  /\ logParams' = params
  /\ logStr' = Slice1(Stringify(params))
  /\ logTrace' = <<LogEvent(Message(logName, Slice1(Stringify(params)), Starts)),
                   CallEvent>>
  /\ logResult' = "none"
  /\ logState' = "in func"
  /\ UNCHANGED logName
  /\ UNCHANGED notLogger

\* func returns v: the ends message is logged and v is returned.
LoggerFuncReturns(v) ==
  /\ logState = "in func"
  /\ logTrace' = logTrace \o <<ReturnEvent(v),
                               LogEvent(Message(logName, logStr, Ends))>>
  /\ logResult' = v
  /\ logState' = "returned"
  /\ UNCHANGED <<logName, logParams, logStr, logCalls>>
  /\ UNCHANGED notLogger

\* func throws: nothing in the wrapper catches, the error reaches the caller.
LoggerFuncThrows ==
  /\ logState = "in func"
  /\ logTrace' = Append(logTrace, ThrowEvent)
  /\ logResult' = "error"
  /\ logState' = "threw"
  /\ UNCHANGED <<logName, logParams, logStr, logCalls>>
  /\ UNCHANGED notLogger

\* ======================================================== specifications
\* A producer that throws on every invocation.
AlwaysThrows == [n \in 1..MaxInvocations |-> "throw"]

InitRetry ==
  /\ RetryInit /\ MemoInit /\ IdInit /\ PolyInit /\ LoggerInit

NextRetry ==
  \/ \E attempts \in 0..MaxAttempts : RetryCreate(attempts)
  \/ RetryCall
  \/ RetryFuncReturns
  \/ RetryFuncThrows

SpecRetry == InitRetry /\ [][NextRetry]_vars

\* The other functions are checked with retry never created.
InitOther ==
  /\ RetryIdle /\ retPlan = AlwaysThrows
  /\ MemoInit /\ IdInit /\ PolyInit /\ LoggerInit

NextMemo ==
  \/ Memoize
  \/ \E args \in MemoArgs : MemoCall(args)

SpecMemo == InitOther /\ [][NextMemo]_vars

NextId ==
  \/ \E g \in Gens, startFrom \in 0..MaxSeed : GetIdGeneratorFunction(g, startFrom)
  \/ \E g \in Gens : IdCall(g)

SpecId == InitOther /\ [][NextId]_vars

NextPoly ==
  \/ \E params \in ParamLists : GetPolynom(params)
  \/ \E x \in Xs : PolyCall(x)

SpecPoly == InitOther /\ [][NextPoly]_vars

NextLogger ==
  \/ \E name \in FuncNames : Logger(name)
  \/ \E params \in LoggerParams : LoggerCall(params)
  \/ \E v \in FuncResults : LoggerFuncReturns(v)
  \/ LoggerFuncThrows

SpecLogger == InitOther /\ [][NextLogger]_vars

\* ================================================================ claims
\* The producer's invocation count when the current wrapper call began.
RetryStart == retProducerCount - retCalls

RetryCalled == retState \in {"attempting", "done", "failed"}

\* From the start of the current wrapper call, func throws exactly k times
\* and then returns.
FailsThenSucceeds(k) ==
  /\ RetryStart + k + 1 <= MaxInvocations
  /\ \A i \in 1..k : retPlan[RetryStart + i] = "throw"
  /\ retPlan[RetryStart + k + 1] # "throw"

\* C1: with a producer that always fails, one call to the wrapper invokes
\* the producer exactly attempts + 1 times and then the failure reaches the
\* caller: never more invocations than attempts + 1, and after invocation
\* attempts + 1 the call has failed.
C1_RetryExhaustion ==
  (RetryCalled /\ retPlan = AlwaysThrows) =>
    /\ retCalls <= retAttempts + 1
    /\ (retCalls = retAttempts + 1 => retState = "failed")

\* C2: memoize does not invoke the producer at wrap time: until the wrapper
\* is first called nothing is cached and the producer has not run; once it
\* has been called the producer has run exactly once.
C2_MemoizeLazy ==
  memState = "wrapped" =>
    /\ (memReturns = <<>> => (memProducerLog = <<>> /\ DOMAIN cash = {}))
    /\ (memReturns # <<>> => Len(memProducerLog) = 1)

\* C3: after N >= 1 calls of the memoized wrapper, with any arguments, the
\* producer has been invoked exactly once in all, and every call returned
\* the value that one invocation returned.
C3_MemoizeOnce ==
  (memState = "wrapped" /\ Len(memReturns) >= 1) =>
    /\ Len(memProducerLog) = 1
    /\ \A i \in 1..Len(memReturns) : memReturns[i] = memProducerLog[1]

C3_Witness ==
  /\ memState = "wrapped"
  /\ Len(memReturns) >= 2
  /\ memArgs[1] # memArgs[2]

\* C4: when the producer fails exactly k times and then succeeds, and
\* attempts >= k, the wrapper call does not fail, never invokes the producer
\* more than k + 1 times, and ends only after invocation k + 1, returning
\* that invocation's value.
C4_RetrySuccess ==
  \A k \in 0..MaxAttempts :
    (RetryCalled /\ FailsThenSucceeds(k) /\ retAttempts >= k) =>
      /\ retState # "failed"
      /\ retCalls <= k + 1
      /\ (retState = "attempting" => retCalls <= k)
      /\ (retState = "done" =>
            /\ retCalls = k + 1
            /\ retResult = retPlan[RetryStart + k + 1])

C4_Witness ==
  /\ retState = "done"
  /\ retCalls >= 2
  /\ retAttempts = retCalls - 1
  /\ retResult = "b"

\* C5: during one wrapper call the producer is never invoked more than
\* maxAttempts + 1 times, whatever it does, and no frame runs with a spent
\* budget: a failure at remaining budget 0 ends the call.
C5_RetryBounded ==
  RetryCalled =>
    /\ retCalls <= retAttempts + 1
    /\ (retState = "attempting" => retRemaining >= 0)

\* C6: the wrapper's recursion depth never exceeds maxAttempts.
C6_RetryDepth ==
  RetryCalled => retDepth <= retAttempts

\* C7: each generator's first call returns its startFrom and every later
\* call returns the previous value plus 1, whatever calls the other
\* generator has had in between.
C7_IdGenerator ==
  \A g \in Gens :
    \A i \in 1..Len(idReturns[g]) :
      /\ i = 1 => idReturns[g][i] = idGen[g].startFrom
      /\ i > 1 => idReturns[g][i] = idReturns[g][i - 1] + 1

C7_Witness ==
  /\ idGen[1].created /\ idGen[2].created
  /\ idGen[1].startFrom # idGen[2].startFrom
  /\ Len(idReturns[1]) >= 2
  /\ Len(idReturns[2]) >= 2

\* C8: getPolynom called with no coefficients returns null, not a function.
C8_PolynomNull ==
  (polyState # "none" /\ polyParams = <<>>) => polyState = "null"

\* The polynomial with coefficients c, highest degree first, at x, by
\* Horner's rule.
RECURSIVE Horner(_, _, _)
Horner(c, x, acc) ==
  IF c = <<>> THEN acc ELSE Horner(Tail(c), x, acc * x + Head(c))

\* C9: for a non-empty coefficient list, highest degree first, every call
\* of the returned function at x returns the polynomial's value at x (so
\* repeated calls at the same x agree), with the documented examples.
C9_Polynom ==
  (polyState = "function" /\ polyParams # <<>>) =>
    \A i \in 1..Len(polyCalls) :
      LET x == polyCalls[i].x
          y == polyCalls[i].y
      IN /\ y = Horner(polyParams, x, 0)
         /\ polyParams = <<2, 3, 5>> => y = 2 * x * x + 3 * x + 5
         /\ polyParams = <<1, -3>> => y = x - 3
         /\ polyParams = <<8>> => y = 8

C9_Witness ==
  /\ polyParams = <<2, 3, 5>>
  /\ Len(polyCalls) = 2
  /\ polyCalls[1] = [x |-> -2, y |-> 7]
  /\ polyCalls[2] = polyCalls[1]

\* C10: a wrapper call logs the starts message before func is invoked; if
\* func returns, the ends message with the same serialized arguments is
\* logged after it and func's result is returned, two messages in all; if
\* func throws, the error reaches the caller and no ends message is logged.
C10_Logger ==
  LET str == Slice1(Stringify(logParams))
      starts == LogEvent(Message(logName, str, Starts))
      ends == LogEvent(Message(logName, str, Ends))
  IN /\ logState = "in func" => logTrace = <<starts, CallEvent>>
     /\ logState = "returned" =>
          /\ Len(logTrace) = 4
          /\ SubSeq(logTrace, 1, 2) = <<starts, CallEvent>>
          /\ logTrace[3].ev = "func returned"
          /\ logTrace[4] = ends
          /\ logResult = logTrace[3].data[1]
     /\ logState = "threw" =>
          /\ logTrace = <<starts, CallEvent, ThrowEvent>>
          /\ logResult = "error"
     /\ (logState = "returned" /\ logName = <<"c", "o", "s">>
           /\ logParams = <<Num(-12), Undefined>>) =>
          logTrace[4].data = <<"c", "o", "s", "(", "-", "1", "2", ",",
                               "n", "u", "l", "l", ")", " ",
                               "e", "n", "d", "s">>

C10_Witness ==
  /\ logState = "returned"
  /\ logCalls = 2
  /\ logName = <<"c", "o", "s">>
  /\ logParams = <<Num(-12), Undefined>>
  /\ logResult = "v2"

====
